---- MODULE Spec2Model ----
(***************************************************************************)
(* Model of scripts/load_merge.py: the load -> light-clean -> merge        *)
(* pipeline over the Collision, Vehicle and Casualty tables.               *)
(*                                                                         *)
(* A table is [cols |-> set of column names, rows |-> sequence of records  *)
(* over cols].  A cell is a record [k, n, s]:                              *)
(*   raw CSV fields   k = "int" (digits, value n), "dec" (a decimal with   *)
(*                    one fractional digit, n in tenths), "empty",         *)
(*                    "str" (other text s);                                *)
(*   loaded values    k = "int" (int64 n), "flt" (float64, n in tenths),   *)
(*                    "nan" (float NaN), "NA" (pd.NA), "str" (text s).     *)
(* pandas semantics are those of pandas 1.x/2.x: astype(str) turns a       *)
(* missing value into the text "nan" or "<NA>".                            *)
(***************************************************************************)
EXTENDS Integers, Sequences, FiniteSets, TLC

VARIABLES pc, raw, acc, veh, cas, acc_ctx, veh_en, cas_en, out, log, err

vars == <<pc, raw, acc, veh, cas, acc_ctx, veh_en, cas_en, out, log, err>>

(* ------------------------------ Config ------------------------------- *)
\* UK_LAT_BOUNDS = (49.8, 60.9), UK_LON_BOUNDS = (-8.7, 1.8), in tenths of a degree
UK_LAT_LO == 498
UK_LAT_HI == 609
UK_LON_LO == -87
UK_LON_HI == 18
ALLOWED_SPEEDS == {5, 10, 15, 20, 30, 40, 50, 60, 70, 80}
SENTINELS == {-1, 97, 98, 99, 997, 998, 999}

COLLISION_KEY == "collision_index"
VEH_KEYS == {COLLISION_KEY, "vehicle_reference"}
CAS_KEYS == {COLLISION_KEY, "vehicle_reference", "casualty_reference"}
KEY_COLUMNS == {COLLISION_KEY, "vehicle_reference", "casualty_reference"}

\* the columns of COLLISION_CONTEXT that the model's Collision tables can carry
COLLISION_CONTEXT ==
    {"collision_index", "latitude", "longitude", "number_of_vehicles",
     "number_of_casualties", "speed_limit"}

(* ------------------------------- Cells ------------------------------- *)
Cell(kind, num, txt) == [k |-> kind, n |-> num, s |-> txt]
RawInt(i) == Cell("int", i, "")
RawDec(t) == Cell("dec", t, "")
RawEmpty == Cell("empty", 0, "")
Int64(i) == Cell("int", i, "")
Float(t) == Cell("flt", t, "")
NaN == Cell("nan", 0, "")
PdNA == Cell("NA", 0, "")
Str(t) == Cell("str", 0, t)

\* Series.isna / notna of one value
IsNA(c) == c.k \in {"nan", "NA"}

\* the numeric value of a numeric cell, in tenths
Tenths(c) == IF c.k = "int" THEN 10 * c.n ELSE c.n

Digit(d) ==
    CASE d = 0 -> "0" [] d = 1 -> "1" [] d = 2 -> "2" [] d = 3 -> "3"
      [] d = 4 -> "4" [] d = 5 -> "5" [] d = 6 -> "6" [] d = 7 -> "7"
      [] d = 8 -> "8" [] d = 9 -> "9"

RECURSIVE DecStr(_)
\* str() of a Python int
DecStr(i) ==
    IF i < 0 THEN "-" \o DecStr(-i)
    ELSE IF i < 10 THEN Digit(i)
    ELSE DecStr(i \div 10) \o Digit(i % 10)

\* str() of a float with one fractional digit, t in tenths: 10 -> "1.0"
FloatStr(t) ==
    IF t < 0 THEN "-" \o DecStr((-t) \div 10) \o "." \o Digit((-t) % 10)
    ELSE DecStr(t \div 10) \o "." \o Digit(t % 10)

(* ------------------------------ Tables ------------------------------- *)
Table(columns, rowseq) == [cols |-> columns, rows |-> rowseq]
NoTable == Table({}, <<>>)

Column(t, c) == {t.rows[i][c] : i \in DOMAIN t.rows}

KeyOf(row, keys) == [c \in keys |-> row[c]]

(* ---------------------------- read_csv_any --------------------------- *)
\* the dtype pandas infers for a CSV column
InferDtype(t, c) ==
    IF t.rows = <<>> THEN "object"
    ELSE IF \E x \in Column(t, c) : x.k = "str" THEN "object"
    ELSE IF \E x \in Column(t, c) : x.k \in {"dec", "empty"} THEN "float64"
    ELSE "int64"

ReadCell(dtype, x) ==
    CASE dtype = "int64" -> Int64(x.n)
      [] dtype = "float64" ->
            IF x.k = "empty" THEN NaN
            ELSE IF x.k = "int" THEN Float(10 * x.n) ELSE Float(x.n)
      [] OTHER ->
            IF x.k = "empty" THEN NaN
            ELSE IF x.k = "int" THEN Str(DecStr(x.n))
            ELSE IF x.k = "dec" THEN Str(FloatStr(x.n)) ELSE x

read_csv_any(t) ==
    [t EXCEPT !.rows = [i \in DOMAIN t.rows |->
        [c \in t.cols |-> ReadCell(InferDtype(t, c), t.rows[i][c])]]]

(* ----------------------- coerce_sentinels_to_na ---------------------- *)
is_integer_dtype(t, c) ==
    /\ t.rows # <<>>
    /\ \A x \in Column(t, c) : x.k = "int"

ReplaceSentinel(x) == IF x.k = "int" /\ x.n \in SENTINELS THEN PdNA ELSE x

coerce_sentinels_to_na(t) ==
    [t EXCEPT !.rows = [i \in DOMAIN t.rows |->
        [c \in t.cols |->
            IF is_integer_dtype(t, c) THEN ReplaceSentinel(t.rows[i][c])
            ELSE t.rows[i][c]]]]

(* ------------------------- key columns to text ----------------------- *)
\* astype(str) that leaves missing values missing
AsStrKeepMissing(x) ==
    CASE x.k = "int" -> Str(DecStr(x.n))
      [] x.k = "flt" -> Str(FloatStr(x.n))
      [] OTHER -> x

\* str(value), as Series.astype(str) applies it
AsStr(x) ==
    CASE x.k = "int" -> Str(DecStr(x.n))
      [] x.k = "flt" -> Str(FloatStr(x.n))
      [] x.k = "nan" -> Str("nan")
      [] x.k = "NA" -> Str("<NA>")
      [] OTHER -> x

KeysToStr(t) ==
    [t EXCEPT !.rows = [i \in DOMAIN t.rows |->
        [c \in t.cols |->
            IF c \in KEY_COLUMNS THEN AsStr(t.rows[i][c]) ELSE t.rows[i][c]]]]

(* --------------------------- drop_duplicates ------------------------- *)
\* drop_duplicates with keep="last"
RECURSIVE KeepLast(_, _, _)
KeepLast(rows, keys, seen) ==
    IF rows = <<>> THEN <<>>
    ELSE IF \E j \in 2 .. Len(rows) : KeyOf(rows[j], keys) = KeyOf(Head(rows), keys)
         THEN KeepLast(Tail(rows), keys, seen)
         ELSE <<Head(rows)>> \o KeepLast(Tail(rows), keys, seen)

\* DataFrame.drop_duplicates(subset=keys, keep="first")
RECURSIVE KeepFirst(_, _, _)
KeepFirst(rows, keys, seen) ==
    IF rows = <<>> THEN <<>>
    ELSE IF KeyOf(Head(rows), keys) \in seen
         THEN KeepFirst(Tail(rows), keys, seen)
         ELSE <<Head(rows)>> \o
              KeepFirst(Tail(rows), keys, seen \cup {KeyOf(Head(rows), keys)})

drop_duplicates(t, keys) == [t EXCEPT !.rows = KeepFirst(t.rows, keys, {})]

(* --------------------------- within_uk_mask -------------------------- *)
\* Series.between with inclusive="neither"
BetweenExclusive(x, lo, hi) == ~IsNA(x) /\ lo < Tenths(x) /\ Tenths(x) < hi

Between(x, lo, hi) == ~IsNA(x) /\ lo <= Tenths(x) /\ Tenths(x) <= hi

\* TRUE = keep
within_uk_mask(lat, lon) ==
    LET ok_lat == Between(lat, UK_LAT_LO, UK_LAT_HI)
        ok_lon == Between(lon, UK_LON_LO, UK_LON_HI)
        out_of_box == (~IsNA(lat)) /\ (~IsNA(lon)) /\ ~(ok_lat /\ ok_lon)
    IN  ~out_of_box

KeepRow(r) == within_uk_mask(r["latitude"], r["longitude"])

\* acc.loc[keep].reset_index(drop=True)
RECURSIVE LocKeep(_)
LocKeep(rows) ==
    IF rows = <<>> THEN <<>>
    ELSE (IF KeepRow(Head(rows)) THEN <<Head(rows)>> ELSE <<>>)
         \o LocKeep(Tail(rows))

\* int((~keep).sum())
CountDropped(rows) == Cardinality({i \in DOMAIN rows : ~KeepRow(rows[i])})

(* ----------------------------- speed_limit --------------------------- *)
\* the integers a text cell of the model can spell
NumericTexts == 0 .. 99

\* pd.to_numeric(errors="coerce") of one value, in tenths; NaN when not a number
to_numeric(x) ==
    CASE x.k \in {"int", "flt"} -> Float(Tenths(x))
      [] x.k = "str" ->
            IF \E i \in NumericTexts : DecStr(i) = x.s
            THEN Float(10 * (CHOOSE i \in NumericTexts : DecStr(i) = x.s))
            ELSE NaN
      [] OTHER -> NaN

\* a range test in place of the membership test
SpeedInRange(x) ==
    LET s == to_numeric(x)
    IN  ~IsNA(s) /\ 50 <= s.n /\ s.n <= 800

SpeedAllowed(x) ==
    LET s == to_numeric(x)
    IN  ~IsNA(s) /\ s.n % 10 = 0 /\ (s.n \div 10) \in ALLOWED_SPEEDS

NormalizeSpeed(x) == IF SpeedAllowed(x) THEN x ELSE PdNA

(* -------------------------------- merge ------------------------------ *)
\* validate="many_to_one": the merge keys are unique in the right table
RightUnique(right, on) ==
    Cardinality({KeyOf(right.rows[i], on) : i \in DOMAIN right.rows}) = Len(right.rows)

Matches(l, right, on) ==
    SelectSeq(right.rows, LAMBDA r : KeyOf(r, on) = KeyOf(l, on))

\* how="inner": a left row without a match is dropped
JoinRowInner(l, right, on) ==
    LET m == Matches(l, right, on)
        allcols == DOMAIN l \cup right.cols
    IN  [j \in DOMAIN m |->
            [c \in allcols |-> IF c \in DOMAIN l THEN l[c] ELSE m[j][c]]]

\* the output rows of one left row: one per matching right row, or one with the
\* right table's columns missing
JoinRow(l, right, on) ==
    LET m == Matches(l, right, on)
        allcols == DOMAIN l \cup right.cols
    IN  IF m = <<>>
        THEN <<[c \in allcols |-> IF c \in DOMAIN l THEN l[c] ELSE NaN]>>
        ELSE [j \in DOMAIN m |->
                [c \in allcols |-> IF c \in DOMAIN l THEN l[c] ELSE m[j][c]]]

RECURSIVE JoinRows(_, _, _)
JoinRows(lrows, right, on) ==
    IF lrows = <<>> THEN <<>>
    ELSE JoinRow(Head(lrows), right, on) \o JoinRows(Tail(lrows), right, on)

\* left.merge(right, on=on, how="left"), once the keys exist and validate passed
merge(left, right, on) ==
    Table(left.cols \cup right.cols, JoinRows(left.rows, right, on))

\* "" when the merge goes through, else the exception it raises
MergeError(left, right, on) ==
    IF ~(on \subseteq left.cols /\ on \subseteq right.cols) THEN "KeyError"
    ELSE IF ~RightUnique(right, on) THEN "MergeError"
    ELSE ""

\* df[cols]
Project(t, columns) ==
    Table(columns, [i \in DOMAIN t.rows |-> [c \in columns |-> t.rows[i][c]]])

(* ------------------------------ parity audit ------------------------- *)
\* child.groupby(COLLISION_KEY)[ref].nunique() at group u
NUnique(child, ref, u) ==
    Cardinality({child.rows[i][ref] : i \in
        {j \in DOMAIN child.rows :
            child.rows[j][COLLISION_KEY] = u /\ ~IsNA(child.rows[j][ref])}})

\* one entry of declared.sub(counts, fill_value=0) != 0: a is the declared cell or
\* NaN where the index has none, hasGroup says whether counts has the label
SubNonZero(a, hasGroup, count) ==
    IF IsNA(a) /\ ~hasGroup THEN TRUE
    ELSE (IF IsNA(a) THEN 0 ELSE Tenths(a)) - (IF hasGroup THEN 10 * count ELSE 0) # 0

\* (acc.set_index(COLLISION_KEY)[declared].sub(counts, fill_value=0) != 0).sum():
\* the result is indexed by the union of the two indexes
ParityMismatches(parent, child, declared, ref) ==
    LET groups == Column(child, COLLISION_KEY)
        labels == Column(parent, COLLISION_KEY)
        fromParent == {i \in DOMAIN parent.rows :
            SubNonZero(parent.rows[i][declared],
                       parent.rows[i][COLLISION_KEY] \in groups,
                       NUnique(child, ref, parent.rows[i][COLLISION_KEY]))}
        fromChildOnly == {u \in groups \ labels :
            SubNonZero(NaN, TRUE, NUnique(child, ref, u))}
    IN  Cardinality(fromParent) + Cardinality(fromChildOnly)

(* ------------------------------- pipeline ---------------------------- *)
Msg(text, count) == [msg |-> text, n |-> count]

Raise(kind) ==
    /\ pc' = "aborted"
    /\ err' = kind

\* main, lines 122-143: resolve the data directory and the three files
Locate ==
    /\ pc = "locate"
    /\ IF raw.found
       THEN /\ pc' = "load"
            /\ log' = Append(log, Msg("Loading", 0))
            /\ err' = err
       ELSE /\ Raise("FileNotFoundError")
            /\ log' = log
    /\ UNCHANGED <<raw, acc, veh, cas, acc_ctx, veh_en, cas_en, out>>

Load ==
    /\ pc = "load"
    /\ acc' = read_csv_any(raw.acc)
    /\ veh' = read_csv_any(raw.veh)
    /\ cas' = read_csv_any(raw.cas)
    /\ pc' = "sentinels"
    /\ UNCHANGED <<raw, acc_ctx, veh_en, cas_en, out, log, err>>

CoerceSentinels ==
    /\ pc = "sentinels"
    /\ acc' = coerce_sentinels_to_na(acc)
    /\ veh' = coerce_sentinels_to_na(veh)
    /\ cas' = coerce_sentinels_to_na(cas)
    /\ pc' = "keys"
    /\ UNCHANGED <<raw, acc_ctx, veh_en, cas_en, out, log, err>>

KeyColumnsToStr ==
    /\ pc = "keys"
    /\ acc' = KeysToStr(acc)
    /\ veh' = KeysToStr(veh)
    /\ cas' = KeysToStr(cas)
    /\ pc' = "dedupe_veh"
    /\ UNCHANGED <<raw, acc_ctx, veh_en, cas_en, out, log, err>>

DedupeVehicles ==
    /\ pc = "dedupe_veh"
    /\ IF VEH_KEYS \subseteq veh.cols
       THEN /\ veh' = drop_duplicates(veh, VEH_KEYS)
            /\ log' = Append(log, Msg("Vehicles: dropped duplicate key-rows",
                                      Len(veh.rows) - Len(veh'.rows)))
       ELSE UNCHANGED <<veh, log>>
    /\ pc' = "dedupe_cas"
    /\ UNCHANGED <<raw, acc, cas, acc_ctx, veh_en, cas_en, out, err>>

DedupeCasualties ==
    /\ pc = "dedupe_cas"
    /\ IF CAS_KEYS \subseteq cas.cols
       THEN /\ cas' = drop_duplicates(cas, CAS_KEYS)
            /\ log' = Append(log, Msg("Casualties: dropped duplicate key-rows",
                                      Len(cas.rows) - Len(cas'.rows)))
       ELSE UNCHANGED <<cas, log>>
    /\ pc' = "geo"
    /\ UNCHANGED <<raw, acc, veh, acc_ctx, veh_en, cas_en, out, err>>

GeoFilter ==
    /\ pc = "geo"
    /\ IF {"latitude", "longitude"} \subseteq acc.cols
       THEN /\ acc' = [acc EXCEPT !.rows = LocKeep(acc.rows)]
            /\ log' = IF CountDropped(acc.rows) # 0
                      THEN Append(log, Msg("Collisions: dropping rows outside UK bounds",
                                           CountDropped(acc.rows)))
                      ELSE log
       ELSE UNCHANGED <<acc, log>>
    /\ pc' = "speed"
    /\ UNCHANGED <<raw, veh, cas, acc_ctx, veh_en, cas_en, out, err>>

SpeedLimit ==
    /\ pc = "speed"
    /\ IF "speed_limit" \in acc.cols
       THEN acc' = [acc EXCEPT !.rows = [i \in DOMAIN acc.rows |->
                [acc.rows[i] EXCEPT !["speed_limit"] = NormalizeSpeed(@)]]]
       ELSE UNCHANGED acc
    /\ pc' = "context"
    /\ UNCHANGED <<raw, veh, cas, acc_ctx, veh_en, cas_en, out, log, err>>

CollisionContext ==
    /\ pc = "context"
    /\ acc_ctx' = Project(acc, COLLISION_CONTEXT \cap acc.cols)
    /\ pc' = "save_acc"
    /\ UNCHANGED <<raw, acc, veh, cas, veh_en, cas_en, out, log, err>>

SaveCollisions ==
    /\ pc = "save_acc"
    /\ out' = out @@ ("collisions_clean" :> acc)
    /\ log' = Append(log, Msg("Saved collisions_clean", Len(acc.rows)))
    /\ pc' = "merge_veh"
    /\ UNCHANGED <<raw, acc, veh, cas, acc_ctx, veh_en, cas_en, err>>

\* veh[VEH_KEYS + ["vehicle_type"]].drop_duplicates(VEH_KEYS)
VehPick == drop_duplicates(Project(veh, VEH_KEYS \cup {"vehicle_type"}), VEH_KEYS)

\* the exception of lines 204-207, "" when both merges go through
CasMergeError ==
    IF MergeError(cas, acc_ctx, {COLLISION_KEY}) # ""
    THEN MergeError(cas, acc_ctx, {COLLISION_KEY})
    ELSE IF "vehicle_type" \notin veh.cols THEN ""
    ELSE IF ~(VEH_KEYS \subseteq veh.cols) THEN "KeyError"
    ELSE MergeError(merge(cas, acc_ctx, {COLLISION_KEY}), VehPick, VEH_KEYS)

CasMerged ==
    IF "vehicle_type" \in veh.cols
    THEN merge(merge(cas, acc_ctx, {COLLISION_KEY}), VehPick, VEH_KEYS)
    ELSE merge(cas, acc_ctx, {COLLISION_KEY})

EnrichVehicles ==
    /\ pc = "merge_veh"
    /\ IF COLLISION_KEY \in veh.cols
       THEN IF MergeError(veh, acc_ctx, {COLLISION_KEY}) = ""
            THEN /\ veh_en' = merge(veh, acc_ctx, {COLLISION_KEY})
                 /\ pc' = "save_veh"
                 /\ err' = err
            ELSE /\ Raise(MergeError(veh, acc_ctx, {COLLISION_KEY}))
                 /\ veh_en' = veh_en
       ELSE /\ veh_en' = veh
            /\ pc' = "save_veh"
            /\ err' = err
    /\ UNCHANGED <<raw, acc, veh, cas, acc_ctx, cas_en, out, log>>

SaveVehicles ==
    /\ pc = "save_veh"
    /\ out' = out @@ ("vehicles_enriched" :> veh_en)
    /\ log' = Append(log, Msg("Saved vehicles_enriched", Len(veh_en.rows)))
    /\ pc' = "merge_cas"
    /\ UNCHANGED <<raw, acc, veh, cas, acc_ctx, veh_en, cas_en, err>>

EnrichCasualties ==
    /\ pc = "merge_cas"
    /\ IF CasMergeError = ""
       THEN /\ cas_en' = CasMerged
            /\ pc' = "save_cas"
            /\ err' = err
       ELSE /\ Raise(CasMergeError)
            /\ cas_en' = cas_en
    /\ UNCHANGED <<raw, acc, veh, cas, acc_ctx, veh_en, out, log>>

SaveCasualties ==
    /\ pc = "save_cas"
    /\ out' = out @@ ("casualties_enriched" :> cas_en)
    /\ log' = Append(log, Msg("Saved casualties_enriched", Len(cas_en.rows)))
    /\ pc' = "asserts"
    /\ UNCHANGED <<raw, acc, veh, cas, acc_ctx, veh_en, cas_en, err>>

\* t[COLLISION_KEY].notna().all()
KeyNotNA(t) == \A i \in DOMAIN t.rows : ~IsNA(t.rows[i][COLLISION_KEY])

\* lines 214-215; cas_en has the key column once its merge went through
AssertError ==
    IF COLLISION_KEY \notin veh_en.cols THEN "KeyError"
    ELSE IF ~KeyNotNA(veh_en) \/ ~KeyNotNA(cas_en) THEN "AssertionError"
    ELSE ""

PostMergeAsserts ==
    /\ pc = "asserts"
    /\ IF AssertError = ""
       THEN /\ pc' = "parity_veh"
            /\ err' = err
       ELSE Raise(AssertError)
    /\ UNCHANGED <<raw, acc, veh, cas, acc_ctx, veh_en, cas_en, out, log>>

VehicleParity ==
    /\ pc = "parity_veh"
    /\ log' = IF "number_of_vehicles" \in acc.cols /\ "vehicle_reference" \in veh.cols
              THEN Append(log, Msg("Vehicle-count parity mismatches",
                     ParityMismatches(acc, veh, "number_of_vehicles", "vehicle_reference")))
              ELSE log
    /\ pc' = "parity_cas"
    /\ UNCHANGED <<raw, acc, veh, cas, acc_ctx, veh_en, cas_en, out, err>>

CasualtyParity ==
    /\ pc = "parity_cas"
    /\ log' = IF "number_of_casualties" \in acc.cols /\ "casualty_reference" \in cas.cols
              THEN Append(log, Msg("Casualty-count parity mismatches",
                     ParityMismatches(acc, cas, "number_of_casualties", "casualty_reference")))
              ELSE log
    /\ pc' = "complete"
    /\ UNCHANGED <<raw, acc, veh, cas, acc_ctx, veh_en, cas_en, out, err>>

Complete ==
    /\ pc = "complete"
    /\ log' = Append(log, Msg("Load + merge complete.", 0))
    /\ pc' = "done"
    /\ UNCHANGED <<raw, acc, veh, cas, acc_ctx, veh_en, cas_en, out, err>>

(* ------------------------------- inputs ------------------------------ *)
\* rows of the file an input family varies, rows of a second file it varies with
\* it, and rows of the Vehicle files that exercise the order of deduplication
MaxRows == 2
MaxOtherRows == 1
MaxDedupRows == 3

AccCols ==
    {"collision_index", "latitude", "longitude", "speed_limit",
     "number_of_vehicles", "number_of_casualties"}
VehCols == {"collision_index", "vehicle_reference", "vehicle_type"}
CasCols == {"collision_index", "vehicle_reference", "casualty_reference"}

AccRow(ci, lat, lon, speed, nveh, ncas) ==
    [collision_index |-> ci, latitude |-> lat, longitude |-> lon, speed_limit |-> speed,
     number_of_vehicles |-> nveh, number_of_casualties |-> ncas]
VehRow(ci, vr, vt) ==
    [collision_index |-> ci, vehicle_reference |-> vr, vehicle_type |-> vt]
CasRow(ci, vr, cr) ==
    [collision_index |-> ci, vehicle_reference |-> vr, casualty_reference |-> cr]

\* the CSV files with at most n data rows drawn from Rows
Tables(columns, Rows, n) ==
    {Table(columns, rs) : rs \in UNION {[1 .. k -> Rows] : k \in 0 .. n}}

Input(a, v, c) == [found |-> TRUE, acc |-> a, veh |-> v, cas |-> c]

\* a point inside the box (51.5, -0.1) and one outside it (0.0, 0.0)
GeoIn == <<RawDec(515), RawDec(-1)>>
GeoOut == <<RawDec(0), RawDec(0)>>
\* points on and just off each edge of the box, and points with a coordinate empty
GeoPoints ==
    {GeoIn, GeoOut,
     <<RawDec(498), RawDec(-87)>>, <<RawDec(609), RawDec(18)>>,
     <<RawDec(497), RawDec(-1)>>, <<RawDec(610), RawDec(-1)>>,
     <<RawDec(515), RawDec(-88)>>, <<RawDec(515), RawDec(19)>>,
     <<RawEmpty, RawDec(0)>>, <<RawDec(0), RawEmpty>>, <<RawEmpty, RawEmpty>>}

SpeedValues ==
    {RawInt(30), RawInt(25), RawInt(99), RawInt(-1), RawDec(300), RawEmpty, Str("abc")}

OneCollision == Table(AccCols,
    <<AccRow(RawInt(1), GeoIn[1], GeoIn[2], RawInt(30), RawInt(1), RawInt(1))>>)
TwoCollisions == Table(AccCols,
    <<AccRow(RawInt(1), GeoIn[1], GeoIn[2], RawInt(30), RawInt(1), RawInt(1)),
      AccRow(RawInt(2), GeoIn[1], GeoIn[2], RawInt(30), RawInt(1), RawInt(1))>>)
OneVehicle == Table(VehCols, <<VehRow(RawInt(1), RawInt(1), RawInt(9))>>)
TwoVehicles == Table(VehCols,
    <<VehRow(RawInt(1), RawInt(1), RawInt(9)), VehRow(RawInt(1), RawInt(97), RawInt(8))>>)
SentinelVehicle == Table(VehCols, <<VehRow(RawInt(99), RawInt(1), RawInt(9))>>)
OneCasualty == Table(CasCols, <<CasRow(RawInt(1), RawInt(1), RawInt(1))>>)
OrphanCasualty == Table(CasCols, <<CasRow(RawInt(2), RawInt(1), RawInt(1))>>)

\* Vehicles with matching, orphan, sentinel and empty keys
VehicleKeyInputs ==
    {Input(OneCollision, v, c) :
        v \in Tables(VehCols,
            {VehRow(ci, vr, RawInt(9)) :
                ci \in {RawInt(1), RawInt(99), RawEmpty},
                vr \in {RawInt(1), RawInt(97), RawInt(98)}}, MaxRows),
        c \in {OneCasualty, OrphanCasualty}}

\* Collisions with repeated keys and points outside the box
CollisionInputs ==
    {Input(a, v, Table(CasCols, <<>>)) :
        a \in Tables(AccCols,
            {AccRow(ci, g[1], g[2], RawInt(30), RawInt(1), RawInt(0)) :
                ci \in {RawInt(1), RawInt(2)}, g \in {GeoIn, GeoOut}}, MaxRows),
        v \in Tables(VehCols,
            {VehRow(ci, RawInt(1), RawInt(9)) : ci \in {RawInt(1), RawInt(2)}},
            MaxOtherRows)}

\* declared vehicle counts against the Vehicle rows
VehicleCountInputs ==
    {Input(a, v, Table(CasCols, <<>>)) :
        a \in Tables(AccCols,
            {AccRow(RawInt(1), GeoIn[1], GeoIn[2], RawInt(30), nveh, RawInt(0)) :
                nveh \in {RawInt(0), RawInt(1), RawInt(2)}}, MaxOtherRows),
        v \in Tables(VehCols,
            {VehRow(ci, vr, RawInt(9)) :
                ci \in {RawInt(1), RawInt(2)}, vr \in {RawInt(1), RawInt(2)}}, MaxRows)}

\* Casualties with matching, orphan, sentinel and empty keys
CasualtyKeyInputs ==
    {Input(OneCollision, v, c) :
        v \in {TwoVehicles, SentinelVehicle},
        c \in Tables(CasCols,
            {CasRow(ci, RawInt(1), cr) :
                ci \in {RawInt(1), RawInt(99), RawEmpty},
                cr \in {RawInt(1), RawInt(98), RawInt(99)}}, MaxRows)}

\* declared casualty counts against the Casualty rows
CasualtyCountInputs ==
    {Input(a, OneVehicle, c) :
        a \in Tables(AccCols,
            {AccRow(RawInt(1), GeoIn[1], GeoIn[2], RawInt(30), RawInt(1), ncas) :
                ncas \in {RawInt(0), RawInt(1), RawInt(2)}}, MaxOtherRows),
        c \in Tables(CasCols,
            {CasRow(ci, RawInt(1), cr) :
                ci \in {RawInt(1), RawInt(2)}, cr \in {RawInt(1), RawInt(2)}}, MaxRows)}

\* the Collisions.csv files of k rows with keys 1 .. k, a point of Geo and a
\* speed_limit of Speed in each row
NumberedCollisions(k, Geo, Speed) ==
    {Table(AccCols,
        [i \in 1 .. k |->
            AccRow(RawInt(i), g[i][1], g[i][2], sp[i], RawInt(1), RawInt(1))]) :
        g \in [1 .. k -> Geo], sp \in [1 .. k -> Speed]}

GeoInputs ==
    {Input(a, OneVehicle, OneCasualty) :
        a \in UNION {NumberedCollisions(k, GeoPoints, {RawInt(30)}) : k \in 0 .. MaxRows}}

SpeedInputs ==
    {Input(a, OneVehicle, OneCasualty) :
        a \in UNION {NumberedCollisions(k, {GeoIn}, SpeedValues) : k \in 0 .. MaxRows}}

\* collision_index as text: "A7" makes the column text, so 99 stays "99"
TextKeyInputs ==
    {Input(a, v, OneCasualty) :
        a \in Tables(AccCols,
            {AccRow(ci, GeoIn[1], GeoIn[2], RawInt(30), RawInt(1), RawInt(1)) :
                ci \in {RawInt(5), Str("A7")}}, MaxOtherRows),
        v \in Tables(VehCols,
            {VehRow(ci, RawInt(1), RawInt(9)) :
                ci \in {RawInt(5), RawInt(99), Str("A7")}}, MaxRows)}

\* longer Vehicle files of one collision, for the order of the rows kept
DedupInputs ==
    {Input(OneCollision, v, OneCasualty) :
        v \in Tables(VehCols,
            {VehRow(RawInt(1), vr, vt) :
                vr \in {RawInt(1), RawInt(2)}, vt \in {RawInt(8), RawInt(9)}},
            MaxDedupRows)}

\* t without the columns in dropped
Without(t, dropped) == Project(t, t.cols \ dropped)

\* files that lack a column
MissingColumnInputs ==
    {Input(Without(TwoCollisions, da), Without(TwoVehicles, dv), Without(c, dc)) :
        da \in {{}} \cup {{x} : x \in AccCols},
        dv \in {{}} \cup {{x} : x \in VehCols},
        dc \in {{}} \cup {{x} : x \in CasCols},
        c \in {OneCasualty,
               Table(CasCols, <<CasRow(RawInt(1), RawInt(1), RawInt(1)),
                                CasRow(RawInt(1), RawInt(1), RawInt(1))>>)}}

Inputs ==
    VehicleKeyInputs \cup CollisionInputs \cup VehicleCountInputs
    \cup CasualtyKeyInputs \cup CasualtyCountInputs
    \cup GeoInputs \cup SpeedInputs \cup TextKeyInputs \cup DedupInputs
    \cup MissingColumnInputs
    \cup {[found |-> FALSE, acc |-> NoTable, veh |-> NoTable, cas |-> NoTable]}

Init ==
    /\ raw \in Inputs
    /\ pc = "locate"
    /\ acc = NoTable
    /\ veh = NoTable
    /\ cas = NoTable
    /\ acc_ctx = NoTable
    /\ veh_en = NoTable
    /\ cas_en = NoTable
    /\ out = <<>>
    /\ log = <<>>
    /\ err = ""

Next ==
    \/ Locate
    \/ Load
    \/ CoerceSentinels
    \/ KeyColumnsToStr
    \/ DedupeVehicles
    \/ DedupeCasualties
    \/ GeoFilter
    \/ SpeedLimit
    \/ CollisionContext
    \/ SaveCollisions
    \/ EnrichVehicles
    \/ SaveVehicles
    \/ EnrichCasualties
    \/ SaveCasualties
    \/ PostMergeAsserts
    \/ VehicleParity
    \/ CasualtyParity
    \/ Complete

Spec == Init /\ [][Next]_vars

(* ------------------------------- properties -------------------------- *)
HasMatch(row, parent) ==
    \E j \in DOMAIN parent.rows :
        parent.rows[j][COLLISION_KEY] = row[COLLISION_KEY]

\* the child rows whose collision_index is no row of the cleaned Collision table
Orphans(child) ==
    {i \in DOMAIN child.rows : ~HasMatch(child.rows[i], acc)}

\* enriched has one row per row of child, in order, extending it; an unmatched
\* row has every column carried from the Collision context missing
RowForRow(child, enriched) ==
    /\ Len(enriched.rows) = Len(child.rows)
    /\ \A i \in DOMAIN child.rows :
        /\ \A c \in child.cols : enriched.rows[i][c] = child.rows[i][c]
        /\ (COLLISION_KEY \in child.cols /\ ~HasMatch(child.rows[i], acc))
            => \A c \in (enriched.cols \cap acc_ctx.cols) \ child.cols :
                    IsNA(enriched.rows[i][c])

\* C1: once a join has gone through, the enriched Vehicle table has exactly one row
\* per row of the deduplicated Vehicle table and the enriched Casualty table one row
\* per row of the deduplicated Casualty table; a row without a match in the cleaned
\* Collision table is present with every carried Collision column missing.
C1_JoinRowCount ==
    /\ veh_en # NoTable => RowForRow(veh, veh_en)
    /\ cas_en # NoTable => RowForRow(cas, cas_en)

C1_Witness ==
    /\ pc = "done"
    /\ Len(veh.rows) = 2
    /\ Cardinality(Orphans(veh)) = 1
    /\ Orphans(cas) # {}
    /\ "vehicle_type" \in cas_en.cols

\* the rows deduplication keeps: the first of each key, in the original order
FirstOfKey(rows, keys) ==
    {i \in DOMAIN rows : \A j \in 1 .. (i - 1) : KeyOf(rows[j], keys) # KeyOf(rows[i], keys)}

NthOf(S, m) == CHOOSE i \in S : Cardinality({j \in S : j <= i}) = m

DedupLaw(before, after, keys, logBefore, logAfter) ==
    IF keys \subseteq before.cols
    THEN /\ after.cols = before.cols
         /\ Len(after.rows) = Cardinality(FirstOfKey(before.rows, keys))
         /\ \A m \in DOMAIN after.rows :
                after.rows[m] = before.rows[NthOf(FirstOfKey(before.rows, keys), m)]
         /\ \A m, k \in DOMAIN after.rows :
                m # k => KeyOf(after.rows[m], keys) # KeyOf(after.rows[k], keys)
         /\ Len(logAfter) = Len(logBefore) + 1
         /\ logAfter[Len(logAfter)].n = Len(before.rows) - Len(after.rows)
    ELSE /\ after = before
         /\ logAfter = logBefore

\* C4: deduplication of Vehicles on (collision_index, vehicle_reference) and of
\* Casualties on (collision_index, vehicle_reference, casualty_reference) keeps the
\* first row of each key in the original order, reports rows-before minus
\* rows-after, and leaves a table that lacks a key column unchanged without error.
C4_Deduplication ==
    [][/\ pc = "dedupe_veh" => (DedupLaw(veh, veh', VEH_KEYS, log, log') /\ err' = "")
       /\ pc = "dedupe_cas" => (DedupLaw(cas, cas', CAS_KEYS, log, log') /\ err' = "")]_vars

C4_Witness ==
    /\ pc = "dedupe_cas"
    /\ Len(raw.veh.rows) = 3
    /\ Len(veh.rows) = 2
    /\ log[Len(log)] = Msg("Vehicles: dropped duplicate key-rows", 1)
    /\ raw.veh.rows[1]["vehicle_reference"] = raw.veh.rows[2]["vehicle_reference"]
    /\ raw.veh.rows[1]["vehicle_type"] # raw.veh.rows[2]["vehicle_type"]

\* both coordinates present and at least one outside its inclusive bound
OutsideBox(r) ==
    /\ r["latitude"].k \in {"int", "flt"}
    /\ r["longitude"].k \in {"int", "flt"}
    /\ \/ Tenths(r["latitude"]) < UK_LAT_LO
       \/ Tenths(r["latitude"]) > UK_LAT_HI
       \/ Tenths(r["longitude"]) < UK_LON_LO
       \/ Tenths(r["longitude"]) > UK_LON_HI

InBoxOrMissing(t) ==
    {"latitude", "longitude"} \subseteq t.cols
        => \A i \in DOMAIN t.rows : ~OutsideBox(t.rows[i])

GeoLaw(before, after, logBefore, logAfter) ==
    LET gone == {i \in DOMAIN before.rows : OutsideBox(before.rows[i])}
    IN  IF {"latitude", "longitude"} \subseteq before.cols
        THEN /\ after = [before EXCEPT !.rows =
                            SelectSeq(before.rows, LAMBDA r : ~OutsideBox(r))]
             /\ Len(before.rows) - Len(after.rows) = Cardinality(gone)
             /\ logAfter = IF gone = {} THEN logBefore
                           ELSE Append(logBefore,
                                    Msg("Collisions: dropping rows outside UK bounds",
                                        Cardinality(gone)))
        ELSE after = before /\ logAfter = logBefore

\* C5: the geo filter drops a Collision row if and only if both coordinates are
\* present and at least one lies outside latitude [49.8, 60.9] or longitude
\* [-8.7, 1.8]; every row of the cleaned Collision output with both coordinates
\* present lies inside the box, and the logged count is the number of rows removed.
C5_GeoFilter ==
    /\ [][pc = "geo" => GeoLaw(acc, acc', log, log')]_vars
    /\ [](\A name \in DOMAIN out \cap {"collisions_clean"} : InBoxOrMissing(out[name]))

C5_Witness ==
    /\ "collisions_clean" \in DOMAIN out
    /\ raw.acc.cols = AccCols
    /\ Len(raw.acc.rows) = 2
    /\ raw.acc.rows[1]["latitude"] = RawDec(610)
    /\ raw.acc.rows[2]["latitude"] = RawEmpty
    /\ raw.acc.rows[2]["longitude"] = RawDec(0)
    /\ Len(out["collisions_clean"].rows) = 1
    /\ \E i \in DOMAIN log :
            log[i] = Msg("Collisions: dropping rows outside UK bounds", 1)

\* the value spells one of the allowed speeds
IsAllowedSpeed(x) ==
    \/ x.k = "int" /\ x.n \in ALLOWED_SPEEDS
    \/ x.k = "flt" /\ x.n \in {10 * a : a \in ALLOWED_SPEEDS}
    \/ x.k = "str" /\ x.s \in {DecStr(a) : a \in ALLOWED_SPEEDS}

SpeedLaw(before, after) ==
    IF "speed_limit" \in before.cols
    THEN /\ after.cols = before.cols
         /\ Len(after.rows) = Len(before.rows)
         /\ \A i \in DOMAIN before.rows :
            /\ \A c \in before.cols \ {"speed_limit"} : after.rows[i][c] = before.rows[i][c]
            /\ after.rows[i]["speed_limit"] =
                    IF IsAllowedSpeed(before.rows[i]["speed_limit"])
                    THEN before.rows[i]["speed_limit"] ELSE PdNA
    ELSE after = before

SpeedInDomain(t) ==
    "speed_limit" \in t.cols =>
        \A i \in DOMAIN t.rows :
            IsNA(t.rows[i]["speed_limit"]) \/ IsAllowedSpeed(t.rows[i]["speed_limit"])

EnrichedOutputs == {"vehicles_enriched", "casualties_enriched"}

\* C7: in every row of the enriched Vehicle and Casualty outputs collision_index is
\* not missing, whatever the raw key was (absent, a sentinel code); a run whose
\* enriched tables lack the key or hold a missing key does not pass the audit.
C7_KeyNotMissing ==
    /\ \A name \in DOMAIN out \cap EnrichedOutputs :
            COLLISION_KEY \in out[name].cols => KeyNotNA(out[name])
    /\ pc \in {"parity_veh", "parity_cas", "complete", "done"} =>
            /\ COLLISION_KEY \in veh_en.cols \cap cas_en.cols
            /\ KeyNotNA(veh_en)
            /\ KeyNotNA(cas_en)

C7_Witness ==
    /\ pc = "done"
    /\ \E i \in DOMAIN raw.veh.rows : raw.veh.rows[i][COLLISION_KEY] = RawInt(99)
    /\ \E i \in DOMAIN raw.cas.rows : raw.cas.rows[i][COLLISION_KEY] = RawEmpty
    /\ \E i \in DOMAIN out["vehicles_enriched"].rows :
            out["vehicles_enriched"].rows[i][COLLISION_KEY] = Str("<NA>")
    /\ \E i \in DOMAIN out["casualties_enriched"].rows :
            out["casualties_enriched"].rows[i][COLLISION_KEY] = Str("nan")

AllOutputs == {"collisions_clean", "vehicles_enriched", "casualties_enriched"}

\* C2: a run either completes with all three outputs written or aborts with none
\* written; an output is written only once both joins and the post-merge key
\* assertions have succeeded.
C2_NoPartialCommit ==
    /\ pc = "done" => DOMAIN out = AllOutputs
    /\ pc = "aborted" => DOMAIN out = {}
    /\ DOMAIN out # {} => pc \in {"parity_veh", "parity_cas", "complete", "done"}

\* two rows of Collisions.csv carry the same collision_index
RawCollisionKeyRepeated ==
    /\ COLLISION_KEY \in raw.acc.cols
    /\ \E i, j \in DOMAIN raw.acc.rows :
            i # j /\ raw.acc.rows[i][COLLISION_KEY] = raw.acc.rows[j][COLLISION_KEY]

\* C3: whenever the Collision table holds two rows with the same collision_index
\* the run aborts with a uniqueness violation before any join, so no enriched
\* table exists, and it never reaches "Load + merge complete".
C3_RepeatedKeyFatal ==
    RawCollisionKeyRepeated =>
        /\ pc \notin {"complete", "done"}
        /\ veh_en = NoTable
        /\ cas_en = NoTable
        /\ pc = "aborted" => err = "MergeError"

OrphanWarning(text, count) ==
    \E i \in DOMAIN log : log[i] = Msg(text, count)

\* C8: whenever the deduplicated Vehicle or Casualty table holds rows whose
\* collision_index is not in the cleaned Collision table, the run logs an orphan
\* warning with the number of such rows and continues without aborting.
C8_OrphanWarning ==
    pc = "done" =>
        /\ Orphans(veh) # {} =>
                OrphanWarning("Vehicles: orphan rows", Cardinality(Orphans(veh)))
        /\ Orphans(cas) # {} =>
                OrphanWarning("Casualties: orphan rows", Cardinality(Orphans(cas)))

\* the Collision rows whose declared count differs from the number of distinct
\* child references under their collision_index, no child row counting as zero
ParentMismatches(child, declared, ref) ==
    {i \in DOMAIN acc.rows :
        \/ IsNA(acc.rows[i][declared])
        \/ Tenths(acc.rows[i][declared]) # 10 * Cardinality(
                {child.rows[j][ref] : j \in {k \in DOMAIN child.rows :
                    child.rows[k][COLLISION_KEY] = acc.rows[i][COLLISION_KEY]}})}

\* C9: the logged vehicle-count (casualty-count) mismatch number is the number of
\* Collision rows whose declared count differs from the distinct child references
\* of that collision; it counts parent rows only, so it is at most the number of
\* Collision rows and child rows without a parent do not raise it.
C9_ParityCountsParents ==
    \A i \in DOMAIN log :
        /\ log[i].msg = "Vehicle-count parity mismatches" =>
            /\ log[i].n = Cardinality(ParentMismatches(veh, "number_of_vehicles",
                                                       "vehicle_reference"))
            /\ log[i].n <= Len(acc.rows)
        /\ log[i].msg = "Casualty-count parity mismatches" =>
            /\ log[i].n = Cardinality(ParentMismatches(cas, "number_of_casualties",
                                                       "casualty_reference"))
            /\ log[i].n <= Len(acc.rows)

\* the distinct key values of a loaded file
RawKeys(t, keys) == {KeyOf(t.rows[i], keys) : i \in DOMAIN t.rows}

\* C10: the key columns are text before the Sentinel Normalizer runs, so no key
\* value is rewritten to missing, and rows whose loaded key values differ are
\* never collapsed into one row by the Deduplicator.
C10_KeysSurviveSentinels ==
    /\ (pc = "dedupe_cas" /\ VEH_KEYS \subseteq veh.cols) =>
            Len(veh.rows) = Cardinality(RawKeys(raw.veh, VEH_KEYS))
    /\ (pc = "geo" /\ CAS_KEYS \subseteq cas.cols) =>
            Len(cas.rows) = Cardinality(RawKeys(raw.cas, CAS_KEYS))

====
